---------------------------- MODULE Spec2Model ----------------------------
(***************************************************************************)
(* A model of compute_sales.py: a batch program that loads a price catalog *)
(* and a sales record (two JSON documents), builds a title -> price map,   *)
(* sums price * quantity over the valid sales records, counts the rejected *)
(* ones, prints a summary and writes it to SalesResults.txt.               *)
(*                                                                         *)
(* Python values are records tagged with their type in field t.  Numbers   *)
(* are exact dyadic rationals m * 2^e (m odd, or m = 0 and e = 0), so that  *)
(* the IEEE-754 double arithmetic of the program (53-bit significand,      *)
(* round to nearest even, overflow to infinity) and Python's unbounded     *)
(* integers are both computed as the interpreter computes them.  Strings   *)
(* are tuples of one-character strings.                                    *)
(***************************************************************************)
EXTENDS Integers, Sequences, FiniteSets, TLC

(***************************************************************************)
(* Platform constants of CPython's float (sys.float_info).                 *)
(***************************************************************************)
MantDig == 53
MaxExp == 1024

(***************************************************************************)
(* Integer helpers.                                                        *)
(***************************************************************************)
Abs(n) == IF n < 0 THEN -n ELSE n

Sign(n) == IF n < 0 THEN -1 ELSE 1

RECURSIVE BitLen(_)
BitLen(n) == IF n = 0 THEN 0 ELSE 1 + BitLen(n \div 2)

RECURSIVE NormM(_)
NormM(m) == IF m = 0 \/ m % 2 = 1 THEN m ELSE NormM(m \div 2)

RECURSIVE NormE(_, _)
NormE(m, e) == IF m = 0 THEN 0 ELSE IF m % 2 = 1 THEN e ELSE NormE(m \div 2, e + 1)

(***************************************************************************)
(* Python values as parsed by json.load.                                   *)
(***************************************************************************)
PyNone == [t |-> "None"]

PyBool(b) == [t |-> "bool", b |-> b]

\* the int n * 2^k (Python ints are unbounded)
PyInt(n, k) == [t |-> "int", m |-> Sign(n) * NormM(Abs(n)), e |-> NormE(Abs(n), k)]

\* the finite double n * 2^k
PyFloat(n, k) == [t |-> "float", c |-> "fin", m |-> Sign(n) * NormM(Abs(n)), e |-> NormE(Abs(n), k)]

\* float("inf") and float("-inf"): s is 1 or -1
PyInf(s) == [t |-> "float", c |-> "inf", m |-> s, e |-> 0]

PyNaN == [t |-> "float", c |-> "nan", m |-> 0, e |-> 0]

PyStr(s) == [t |-> "str", s |-> s]

\* a JSON array; items is the sequence of its elements
PyList(items) == [t |-> "list", items |-> items]

\* a JSON object; kv is a function from its keys to their values
PyDict(kv) == [t |-> "dict", kv |-> kv]

\* dict.get(key): the value, or None when the key is absent
Get(d, key) == IF key \in DOMAIN d.kv THEN d.kv[key] ELSE PyNone

(***************************************************************************)
(* IEEE-754 double arithmetic on exact dyadic values.                      *)
(***************************************************************************)
\* The exact value M * 2^e rounded to the nearest double, ties to even;
\* a magnitude of 2^MaxExp or more after rounding becomes an infinity.
RoundToDouble(M, e) ==
    IF M = 0 THEN PyFloat(0, 0)
    ELSE LET a == Abs(M)
             sh == BitLen(a) - MantDig
             q == IF sh <= 0 THEN a ELSE a \div (2 ^ sh)
             rem == IF sh <= 0 THEN 0 ELSE a % (2 ^ sh)
             half == IF sh <= 0 THEN 1 ELSE 2 ^ (sh - 1)
             up == sh > 0 /\ (rem > half \/ (rem = half /\ q % 2 = 1))
             r == IF up THEN q + 1 ELSE q
             e2 == IF sh <= 0 THEN e ELSE e + sh
         IN IF BitLen(r) + e2 > MaxExp THEN PyInf(Sign(M))
            ELSE PyFloat(Sign(M) * r, e2)

\* the position just above the leading bit of a finite nonzero double
Top(x) == x.e + BitLen(Abs(x.m))

\* x + y of two finite doubles.  An operand below a quarter of the other's
\* unit in the last place cannot change the rounded result.
FAddFinite(x, y) ==
    IF x.m = 0 THEN y
    ELSE IF y.m = 0 THEN x
    ELSE IF Top(y) <= Top(x) - MantDig - 2 THEN x
    ELSE IF Top(x) <= Top(y) - MantDig - 2 THEN y
    ELSE LET e0 == IF x.e < y.e THEN x.e ELSE y.e
         IN RoundToDouble(x.m * 2 ^ (x.e - e0) + y.m * 2 ^ (y.e - e0), e0)

\* float.__add__
FAdd(x, y) ==
    IF x.c = "nan" \/ y.c = "nan" THEN PyNaN
    ELSE IF x.c = "inf" /\ y.c = "inf" THEN (IF x.m = y.m THEN x ELSE PyNaN)
    ELSE IF x.c = "inf" THEN x
    ELSE IF y.c = "inf" THEN y
    ELSE FAddFinite(x, y)

\* float.__mul__ of two doubles
FMul(x, y) ==
    IF x.c = "nan" \/ y.c = "nan" THEN PyNaN
    ELSE IF x.c = "inf" \/ y.c = "inf"
         THEN (IF x.m = 0 \/ y.m = 0 THEN PyNaN ELSE PyInf(Sign(x.m) * Sign(y.m)))
    ELSE RoundToDouble(x.m * y.m, x.e + y.e)

(***************************************************************************)
(* Results of a conversion or an operation that may raise: either          *)
(* [ok |-> TRUE, v |-> value] or [ok |-> FALSE, exc |-> exception name].   *)
(***************************************************************************)
Ok(v) == [ok |-> TRUE, v |-> v]

Raise(name) == [ok |-> FALSE, exc |-> name]

\* int -> float: exact or rounded, OverflowError when out of a double's range
IntToFloat(n) ==
    LET f == RoundToDouble(n.m, n.e)
    IN IF f.c = "inf" THEN Raise("OverflowError") ELSE Ok(f)

\* float -> int: truncation towards zero
FloatToInt(x) ==
    IF x.c = "inf" THEN Raise("OverflowError")
    ELSE IF x.c = "nan" THEN Raise("ValueError")
    ELSE IF x.e >= 0 THEN Ok(PyInt(x.m, x.e))
    ELSE IF -x.e >= BitLen(Abs(x.m)) THEN Ok(PyInt(0, 0))
    ELSE Ok(PyInt(Sign(x.m) * (Abs(x.m) \div (2 ^ (-x.e))), 0))

(***************************************************************************)
(* Strings.                                                                *)
(***************************************************************************)
Whitespace == {" ", "\t", "\n", "\r"}

DigitChars == {"0", "1", "2", "3", "4", "5", "6", "7", "8", "9"}

DigitVal(ch) ==
    CASE ch = "0" -> 0 [] ch = "1" -> 1 [] ch = "2" -> 2 [] ch = "3" -> 3
      [] ch = "4" -> 4 [] ch = "5" -> 5 [] ch = "6" -> 6 [] ch = "7" -> 7
      [] ch = "8" -> 8 [] ch = "9" -> 9

RECURSIVE LStrip(_)
LStrip(s) == IF s # <<>> /\ Head(s) \in Whitespace THEN LStrip(Tail(s)) ELSE s

RECURSIVE RStrip(_)
RStrip(s) ==
    IF s # <<>> /\ s[Len(s)] \in Whitespace THEN RStrip(SubSeq(s, 1, Len(s) - 1)) ELSE s

\* str.strip()
Strip(s) == RStrip(LStrip(s))

RECURSIVE DecValue(_, _)
DecValue(s, acc) == IF s = <<>> THEN acc ELSE DecValue(Tail(s), 10 * acc + DigitVal(Head(s)))

IsDigits(s) == s # <<>> /\ \A i \in 1..Len(s) : s[i] \in DigitChars

\* the sign and the unsigned rest of a stripped numeric literal
LitSign(s) == IF s # <<>> /\ Head(s) = "-" THEN -1 ELSE 1

LitBody(s) == IF s # <<>> /\ Head(s) \in {"-", "+"} THEN Tail(s) ELSE s

\* int(str): optional whitespace, optional sign, decimal digits
StrToInt(s) ==
    LET lit == Strip(s)
    IN IF IsDigits(LitBody(lit)) THEN Ok(PyInt(LitSign(lit) * DecValue(LitBody(lit), 0), 0))
       ELSE Raise("ValueError")

\* float(str): as int(str) for digit strings, plus the names inf and nan
\* (the strings of this model hold no '.', 'e' or '_')
StrToFloat(s) ==
    LET lit == Strip(s)
        body == LitBody(lit)
    IN IF IsDigits(body) THEN Ok(RoundToDouble(LitSign(lit) * DecValue(body, 0), 0))
       ELSE IF body \in {<<"i", "n", "f">>, <<"i", "n", "f", "i", "n", "i", "t", "y">>}
            THEN Ok(PyInf(LitSign(lit)))
       ELSE IF body = <<"n", "a", "n">> THEN Ok(PyNaN)
       ELSE Raise("ValueError")

(***************************************************************************)
(* The built-in conversions the program applies to field values.           *)
(***************************************************************************)
\* float(price)
ToFloat(v) ==
    CASE v.t = "float" -> Ok(v)
      [] v.t = "int" -> IntToFloat(v)
      [] v.t = "bool" -> Ok(PyFloat(IF v.b THEN 1 ELSE 0, 0))
      [] v.t = "str" -> StrToFloat(v.s)
      [] OTHER -> Raise("TypeError")

\* int(quantity)
ToInt(v) ==
    CASE v.t = "int" -> Ok(v)
      [] v.t = "bool" -> Ok(PyInt(IF v.b THEN 1 ELSE 0, 0))
      [] v.t = "float" -> FloatToInt(v)
      [] v.t = "str" -> StrToInt(v.s)
      [] OTHER -> Raise("TypeError")

\* prices[product] * qty with qty an int: the int is converted to float first
MulFloatInt(price, qty) ==
    LET f == IntToFloat(qty)
    IN IF f.ok THEN Ok(FMul(price, f.v)) ELSE f

(***************************************************************************)
(* load_json: a file is [kind |-> "ok", doc |-> value] when it can be read  *)
(* and parsed, and otherwise names the failure: "missing"                  *)
(* (FileNotFoundError), "invalid" (json.JSONDecodeError) or "unreadable"   *)
(* (any other exception).  Every failure returns None.                     *)
(***************************************************************************)
LoadJson(file) == IF file.kind = "ok" THEN file.doc ELSE PyNone

\* what load_json prints
LoadJsonOutput(file) ==
    CASE file.kind = "ok" -> <<>>
      [] file.kind = "missing" -> <<"ERROR: No se encontro el archivo">>
      [] file.kind = "invalid" -> <<"ERROR: JSON invalido">>
      [] OTHER -> <<"ERROR: No se pudo leer">>

(***************************************************************************)
(* build_price_map.                                                        *)
(***************************************************************************)
\* prices: dict[str, float] = {}
EmptyPrices == [k \in {} |-> PyNaN]

\* prices[title] = price_value
Store(prices, title, value) ==
    [k \in DOMAIN prices \cup {title} |-> IF k = title THEN value ELSE prices[k]]

\* isinstance(title, str) and title.strip() != "" (the same test guards Product)
ValidName(v) == v.t = "str" /\ Strip(v.s) # <<>>

\* (faulty variant: an unconvertible price also removes the title from the map)
CatalogStepDropsTitle(prices, item) ==
    IF item.t # "dict" THEN [prices |-> prices, out |-> "AVISO: Entrada invalida en catalogo", exc |-> "none"]
    ELSE LET title == Get(item, "title")
             price == Get(item, "price")
         IN IF ~ValidName(title)
            THEN [prices |-> prices, out |-> "AVISO: Producto sin title valido", exc |-> "none"]
            ELSE LET r == ToFloat(price)
                 IN IF r.ok THEN [prices |-> Store(prices, title.s, r.v), out |-> "", exc |-> "none"]
                    ELSE IF r.exc \in {"TypeError", "ValueError"}
                         THEN [prices |-> [k \in DOMAIN prices \ {title.s} |-> prices[k]],
                               out |-> "AVISO: Precio invalido", exc |-> "none"]
                    ELSE [prices |-> prices, out |-> "", exc |-> r.exc]

\* One iteration of the loop over the catalog: the map afterwards, what was
\* printed, and the exception that escapes the iteration ("none" if none).
CatalogStep(prices, item) ==
    IF item.t # "dict" THEN [prices |-> prices, out |-> "AVISO: Entrada invalida en catalogo", exc |-> "none"]
    ELSE LET title == Get(item, "title")
             price == Get(item, "price")
         IN IF ~ValidName(title)
            THEN [prices |-> prices, out |-> "AVISO: Producto sin title valido", exc |-> "none"]
            ELSE LET r == ToFloat(price)
                 IN IF r.ok THEN [prices |-> Store(prices, title.s, r.v), out |-> "", exc |-> "none"]
                    ELSE IF r.exc \in {"TypeError", "ValueError"}
                         THEN [prices |-> prices, out |-> "AVISO: Precio invalido", exc |-> "none"]
                    ELSE [prices |-> prices, out |-> "", exc |-> r.exc]

(***************************************************************************)
(* compute_total_sales.                                                    *)
(***************************************************************************)
\* (faulty variant: once an error has been counted, later records are ignored)
SaleStepStopsAfterError(prices, total, errors, record) ==
    LET product == Get(record, "Product")
        q == ToInt(Get(record, "Quantity"))
    IN IF errors > 0 THEN [total |-> total, errors |-> errors, out |-> "", exc |-> "none"]
       ELSE IF record.t = "dict" /\ ValidName(product) /\ q.ok /\ q.v.m >= 0
               /\ product.s \in DOMAIN prices /\ MulFloatInt(prices[product.s], q.v).ok
            THEN [total |-> FAdd(total, MulFloatInt(prices[product.s], q.v).v),
                  errors |-> errors, out |-> "", exc |-> "none"]
       ELSE [total |-> total, errors |-> errors + 1, out |-> "AVISO", exc |-> "none"]

\* One iteration of the loop over the sales: total and errors afterwards,
\* what was printed, and the exception that escapes ("none" if none).
SaleStep(prices, total, errors, record) ==
    IF record.t # "dict"
    THEN [total |-> total, errors |-> errors + 1, out |-> "AVISO: Venta invalida (no es objeto)", exc |-> "none"]
    ELSE LET product == Get(record, "Product")
             quantity == Get(record, "Quantity")
         IN IF ~ValidName(product)
            THEN [total |-> total, errors |-> errors + 1, out |-> "AVISO: Venta sin Product valido", exc |-> "none"]
            ELSE LET q == ToInt(quantity)
                 IN IF ~q.ok
                    THEN (IF q.exc \in {"TypeError", "ValueError"}
                          THEN [total |-> total, errors |-> errors + 1, out |-> "AVISO: Cantidad invalida", exc |-> "none"]
                          ELSE [total |-> total, errors |-> errors, out |-> "", exc |-> q.exc])
                    ELSE IF q.v.m < 0
                    THEN [total |-> total, errors |-> errors + 1, out |-> "AVISO: Cantidad negativa", exc |-> "none"]
                    ELSE IF product.s \notin DOMAIN prices
                    THEN [total |-> total, errors |-> errors + 1, out |-> "AVISO: Producto no existe en catalogo", exc |-> "none"]
                    ELSE LET p == MulFloatInt(prices[product.s], q.v)
                         IN IF p.ok THEN [total |-> FAdd(total, p.v), errors |-> errors, out |-> "", exc |-> "none"]
                            ELSE [total |-> total, errors |-> errors, out |-> "", exc |-> p.exc]

(***************************************************************************)
(* format_results and write_results.  The text is the sequence of its four *)
(* lines; each line keeps the value it formats.  A file is absent or holds *)
(* a sequence of lines.                                                    *)
(***************************************************************************)
FormatResults(total, errors, elapsed) ==
    << <<"=== Sales Results ===">>,
       <<"Total Sales: $", total>>,
       <<"Errors/Warnings: ", errors>>,
       <<"Execution Time: ", elapsed, " seconds">> >>

NoFile == [exists |-> FALSE, lines |-> <<>>]

\* (faulty variant: the file is opened for appending)
WriteAppends(old, text) == [exists |-> TRUE, lines |-> old.lines \o text]

\* open(filename, "w") and f.write(text): the file holds text and nothing else
WriteText(old, text) == [exists |-> TRUE, lines |-> text]

\* (faulty variant: only the second load is tested)
LoadFailedOnlySales(c, s) == s = PyNone

\* main's test after both loads: catalog is None or sales is None
LoadFailed(c, s) == c = PyNone \/ s = PyNone

(***************************************************************************)
(* Bounds of the inputs explored.                                          *)
(***************************************************************************)
\* longest catalog array built from every kind of catalog entry
MaxCatalog == 2
\* longest sales array built from the core sale records
MaxSales == 3
\* longest sales array built from every kind of sale record
MaxMixedSales == 2
\* number of times the program is run in sequence on the same inputs
MaxRuns == 2
\* largest elapsed time (in clock ticks) perf_counter may measure
MaxElapsed == 1

\* all sequences over S of length at most n
SeqsUpTo(S, n) == UNION {[1..k -> S] : k \in 0..n}

(***************************************************************************)
(* Input documents.                                                        *)
(***************************************************************************)
TitleA == <<"A">>
TitleB == <<"B">>
TitleZ == <<"Z">>

Entry(title, price) == PyDict([k \in {"title", "price"} |-> IF k = "title" THEN title ELSE price])

Sale(product, quantity) ==
    PyDict([k \in {"Product", "Quantity"} |-> IF k = "Product" THEN product ELSE quantity])

\* every kind of catalog entry: valid ones, and one for each way to be invalid
CatalogItems ==
    { Entry(PyStr(TitleA), PyInt(10, 0)),
      Entry(PyStr(TitleA), PyStr(<<"a", "b", "c">>)),
      Entry(PyStr(TitleB), PyFloat(5, -1)),
      Entry(PyStr(TitleB), PyStr(<<" ", "1", "2">>)),
      Entry(PyStr(<<" ", " ">>), PyInt(1, 0)),
      Entry(PyStr(TitleA), PyInt(1, 1024)),
      PyDict([k \in {"title"} |-> PyStr(TitleB)]),
      PyDict([k \in {"price"} |-> PyInt(3, 0)]),
      Entry(PyInt(7, 0), PyInt(3, 0)),
      Entry(PyStr(TitleB), PyList(<<>>)),
      PyInt(5, 0) }

\* catalogs that price A and B, used with the rich sales arrays
PlainCatalog == PyList(<<Entry(PyStr(TitleA), PyInt(10, 0)), Entry(PyStr(TitleB), PyFloat(5, -1))>>)

HugeCatalog == PyList(<<Entry(PyStr(TitleA), PyFloat(1, 1023)), Entry(PyStr(TitleB), PyFloat(-1, 1023))>>)

\* prices 2^60, -2^60 and 1: adding 2 to 2^60 rounds back to 2^60
RoundCatalog ==
    PyList(<<Entry(PyStr(TitleA), PyFloat(1, 60)), Entry(PyStr(TitleB), PyFloat(-1, 60)),
             Entry(PyStr(TitleZ), PyInt(1, 0))>>)

InfCatalog == PyList(<<Entry(PyStr(TitleA), PyStr(<<"i", "n", "f">>)), Entry(PyStr(TitleB), PyBool(TRUE))>>)

\* the sale records that decide a total: accepted, negative, unknown product
CoreSales ==
    { Sale(PyStr(TitleA), PyInt(1, 0)),
      Sale(PyStr(TitleB), PyInt(1, 0)),
      Sale(PyStr(TitleA), PyInt(-1, 0)),
      Sale(PyStr(TitleZ), PyInt(2, 0)) }

\* every kind of sale record
MixedSales ==
    CoreSales \cup
    { Sale(PyStr(TitleZ), PyInt(-1, 0)),
      Sale(PyStr(TitleA), PyFloat(5, -1)),
      Sale(PyStr(TitleB), PyStr(<<"3", " ">>)),
      Sale(PyStr(TitleA), PyStr(<<"i", "n", "f">>)),
      Sale(PyStr(TitleA), PyInf(1)),
      Sale(PyStr(TitleA), PyNaN),
      Sale(PyStr(TitleA), PyInt(1, 1024)),
      Sale(PyStr(TitleA), PyBool(TRUE)),
      Sale(PyStr(<<>>), PyInt(1, 0)),
      PyDict([k \in {"Product"} |-> PyStr(TitleA)]),
      PyDict([k \in {"Quantity"} |-> PyInt(1, 0)]),
      PyStr(TitleA) }

\* sales arrays used with the rich catalogs
PlainSales ==
    { PyList(<<Sale(PyStr(TitleA), PyInt(1, 0)), Sale(PyStr(TitleB), PyInt(2, 0))>>),
      PyList(<<Sale(PyStr(TitleA), PyInt(-1, 0)), Sale(PyStr(TitleA), PyFloat(5, -1)),
               Sale(PyStr(TitleZ), PyInt(1, 0))>>) }

File(doc) == [kind |-> "ok", doc |-> doc]

FailedFiles == {[kind |-> "missing"], [kind |-> "invalid"], [kind |-> "unreadable"]}

\* documents whose top-level value is not an array
NonArrayDocs ==
    { PyNone, PyBool(TRUE), PyInt(3, 0), PyStr(TitleA),
      PyDict([k \in {"title"} |-> PyStr(TitleA)]) }

MainCatalogFiles == FailedFiles \cup {File(d) : d \in NonArrayDocs \cup {PyList(<<>>), PlainCatalog}}

MainSalesFiles ==
    FailedFiles \cup {File(d) : d \in NonArrayDocs \cup {PyList(<<>>)} \cup PlainSales}

StaleFile == [exists |-> TRUE, lines |-> << <<"stale">> >>]

\* one run's environment: sys.argv's length, the two input files, whether
\* SalesResults.txt can be opened for writing, what it holds beforehand, and
\* how many times the program is run
Env(argc, cf, sf, w, old, n) ==
    [argc |-> argc, catalogFile |-> cf, salesFile |-> sf, writable |-> w, before |-> old, runs |-> n]

Inputs ==
    {Env(n, [kind |-> "missing"], [kind |-> "missing"], TRUE, NoFile, 1) : n \in {1, 2, 4}}
    \cup {Env(3, cf, sf, w, old, n) :
              cf \in MainCatalogFiles, sf \in MainSalesFiles, w \in BOOLEAN,
              old \in {NoFile, StaleFile}, n \in 1..MaxRuns}
    \cup {Env(3, File(PyList(c)), File(s), TRUE, NoFile, 1) :
              c \in SeqsUpTo(CatalogItems, MaxCatalog), s \in PlainSales}
    \cup {Env(3, File(c), File(PyList(s)), TRUE, NoFile, 1) :
              c \in {PlainCatalog, HugeCatalog},
              s \in SeqsUpTo(CoreSales, MaxSales) \cup SeqsUpTo(MixedSales, MaxMixedSales)}
    \cup {Env(3, File(c), File(PyList(s)), TRUE, NoFile, 1) :
              c \in {InfCatalog, RoundCatalog}, s \in SeqsUpTo(CoreSales, MaxSales)}

(***************************************************************************)
(* The state of a run of main.                                             *)
(***************************************************************************)
VARIABLES
    env,        \* the environment of the run (fixed)
    run,        \* which run this is, 1..env.runs
    pc,         \* where main is
    catalog,    \* main's local catalog
    sales,      \* main's local sales
    prices,     \* the price map being built
    idx,        \* the loops' position in the array (1-based)
    total,      \* compute_total_sales's total
    errors,     \* compute_total_sales's errors
    elapsed,    \* the time measured
    steps,      \* the functions main has called in this run, in order
    stdout,     \* what this run has printed, in order
    exc,        \* the exception that escaped main ("none" if none)
    exitcode,   \* what main returned (-1 before it returns)
    outfile,    \* SalesResults.txt
    prev        \* the outcome of the previous run (for comparing runs)

vars == <<env, run, pc, catalog, sales, prices, idx, total, errors, elapsed,
          steps, stdout, exc, exitcode, outfile, prev>>

Unset == [t |-> "unset"]

NoOutcome == [exitcode |-> -1, exc |-> "none", total |-> PyFloat(0, 0), errors |-> 0, ended |-> FALSE]

Outcome == [exitcode |-> exitcode, exc |-> exc, total |-> total, errors |-> errors, ended |-> TRUE]

\* the state in which a run starts
Fresh ==
    /\ pc = "start"
    /\ catalog = Unset /\ sales = Unset
    /\ prices = EmptyPrices /\ idx = 0
    /\ total = PyFloat(0, 0) /\ errors = 0 /\ elapsed = 0
    /\ steps = <<>> /\ stdout = <<>>
    /\ exc = "none" /\ exitcode = -1

Init ==
    /\ env \in Inputs
    /\ run = 1
    /\ outfile = env.before
    /\ prev = NoOutcome
    /\ Fresh

\* if len(sys.argv) != 3: print usage, return 1
CheckArgs ==
    /\ pc = "start"
    /\ IF env.argc # 3
       THEN /\ stdout' = Append(stdout, "Uso: python compute_sales.py priceCatalogue.json salesRecord.json")
            /\ pc' = "done" /\ exitcode' = 1
       ELSE /\ pc' = "load_catalog"
            /\ UNCHANGED <<stdout, exitcode>>
    /\ UNCHANGED <<env, run, catalog, sales, prices, idx, total, errors, elapsed, steps, exc, outfile, prev>>

\* catalog = load_json(catalog_path)
LoadCatalog ==
    /\ pc = "load_catalog"
    /\ catalog' = LoadJson(env.catalogFile)
    /\ stdout' = stdout \o LoadJsonOutput(env.catalogFile)
    /\ steps' = Append(steps, "load_json(catalog)")
    /\ pc' = "load_sales"
    /\ UNCHANGED <<env, run, sales, prices, idx, total, errors, elapsed, exc, exitcode, outfile, prev>>

\* sales = load_json(sales_path)
LoadSales ==
    /\ pc = "load_sales"
    /\ sales' = LoadJson(env.salesFile)
    /\ stdout' = stdout \o LoadJsonOutput(env.salesFile)
    /\ steps' = Append(steps, "load_json(sales)")
    /\ pc' = "check_loaded"
    /\ UNCHANGED <<env, run, catalog, prices, idx, total, errors, elapsed, exc, exitcode, outfile, prev>>

\* if catalog is None or sales is None: print, return 1
CheckLoaded ==
    /\ pc = "check_loaded"
    /\ IF LoadFailed(catalog, sales)
       THEN /\ stdout' = Append(stdout, "ERROR: No se pudo cargar uno o ambos archivos de entrada.")
            /\ pc' = "done" /\ exitcode' = 1
       ELSE /\ pc' = "build"
            /\ UNCHANGED <<stdout, exitcode>>
    /\ UNCHANGED <<env, run, catalog, sales, prices, idx, total, errors, elapsed, steps, exc, outfile, prev>>

\* build_price_map is entered: prices = {}; a catalog that is no list is
\* reported and the empty map returned
BuildStart ==
    /\ pc = "build"
    /\ steps' = Append(steps, "build_price_map")
    /\ prices' = EmptyPrices
    /\ IF catalog.t # "list"
       THEN /\ stdout' = Append(stdout, "ERROR: El catalogo debe ser una lista de productos (JSON array).")
            /\ pc' = "compute" /\ idx' = idx
       ELSE /\ pc' = "build_loop" /\ idx' = 1
            /\ UNCHANGED stdout
    /\ UNCHANGED <<env, run, catalog, sales, total, errors, elapsed, exc, exitcode, outfile, prev>>

\* one iteration of for item in catalog
BuildItem ==
    /\ pc = "build_loop" /\ idx <= Len(catalog.items)
    /\ LET r == CatalogStep(prices, catalog.items[idx])
       IN /\ prices' = r.prices
          /\ stdout' = IF r.out = "" THEN stdout ELSE Append(stdout, r.out)
          /\ exc' = r.exc
          /\ pc' = IF r.exc = "none" THEN "build_loop" ELSE "raised"
          /\ idx' = IF r.exc = "none" THEN idx + 1 ELSE idx
    /\ UNCHANGED <<env, run, catalog, sales, total, errors, elapsed, steps, exitcode, outfile, prev>>

\* the loop over the catalog ends: return prices
BuildReturn ==
    /\ pc = "build_loop" /\ idx > Len(catalog.items)
    /\ pc' = "compute"
    /\ UNCHANGED <<env, run, catalog, sales, prices, idx, total, errors, elapsed, steps, stdout, exc, exitcode, outfile, prev>>

\* compute_total_sales is entered: total = 0.0, errors = 0; sales that are no
\* list are reported and (total, 1) returned
ComputeStart ==
    /\ pc = "compute"
    /\ steps' = Append(steps, "compute_total_sales")
    /\ total' = PyFloat(0, 0)
    /\ IF sales.t # "list"
       THEN /\ stdout' = Append(stdout, "ERROR: El registro de ventas debe ser una lista (JSON array).")
            /\ errors' = 1
            /\ pc' = "report" /\ idx' = idx
       ELSE /\ errors' = 0
            /\ pc' = "compute_loop" /\ idx' = 1
            /\ UNCHANGED stdout
    /\ UNCHANGED <<env, run, catalog, sales, prices, elapsed, exc, exitcode, outfile, prev>>

\* one iteration of for record in sales
ComputeRecord ==
    /\ pc = "compute_loop" /\ idx <= Len(sales.items)
    /\ LET r == SaleStep(prices, total, errors, sales.items[idx])
       IN /\ total' = r.total
          /\ errors' = r.errors
          /\ stdout' = IF r.out = "" THEN stdout ELSE Append(stdout, r.out)
          /\ exc' = r.exc
          /\ pc' = IF r.exc = "none" THEN "compute_loop" ELSE "raised"
          /\ idx' = IF r.exc = "none" THEN idx + 1 ELSE idx
    /\ UNCHANGED <<env, run, catalog, sales, prices, elapsed, steps, exitcode, outfile, prev>>

\* the loop over the sales ends: return total, errors
ComputeReturn ==
    /\ pc = "compute_loop" /\ idx > Len(sales.items)
    /\ pc' = "report"
    /\ UNCHANGED <<env, run, catalog, sales, prices, idx, total, errors, elapsed, steps, stdout, exc, exitcode, outfile, prev>>

\* elapsed = perf_counter() - start; output = format_results(...); print(output)
Report ==
    /\ pc = "report"
    /\ \E t \in 0..MaxElapsed : elapsed' = t
    /\ steps' = Append(steps, "format_results")
    /\ stdout' = Append(stdout, "=== Sales Results ===")
    /\ pc' = "write"
    /\ UNCHANGED <<env, run, catalog, sales, prices, idx, total, errors, exc, exitcode, outfile, prev>>

\* write_results(output); return 0.  When the file cannot be written the
\* OSError escapes main; the file is left as it was (open failed) or empty
\* (opened, and so truncated, before the write failed).
WriteResults ==
    /\ pc = "write"
    /\ steps' = Append(steps, "write_results")
    /\ IF env.writable
       THEN /\ outfile' = WriteText(outfile, FormatResults(total, errors, elapsed))
            /\ pc' = "done" /\ exitcode' = 0
            /\ UNCHANGED exc
       ELSE /\ exc' = "OSError"
            /\ pc' = "raised"
            /\ \E left \in {outfile, [exists |-> TRUE, lines |-> <<>>]} : outfile' = left
            /\ UNCHANGED exitcode
    /\ UNCHANGED <<env, run, catalog, sales, prices, idx, total, errors, elapsed, stdout, prev>>

\* the program is run again on the same inputs; only the output file is kept
RunAgain ==
    /\ pc \in {"done", "raised"}
    /\ run < env.runs
    /\ run' = run + 1
    /\ prev' = Outcome
    /\ pc' = "start"
    /\ catalog' = Unset /\ sales' = Unset
    /\ prices' = EmptyPrices /\ idx' = 0
    /\ total' = PyFloat(0, 0) /\ errors' = 0 /\ elapsed' = 0
    /\ steps' = <<>> /\ stdout' = <<>>
    /\ exc' = "none" /\ exitcode' = -1
    /\ UNCHANGED <<env, outfile>>

Next ==
    \/ CheckArgs
    \/ LoadCatalog
    \/ LoadSales
    \/ CheckLoaded
    \/ BuildStart
    \/ BuildItem
    \/ BuildReturn
    \/ ComputeStart
    \/ ComputeRecord
    \/ ComputeReturn
    \/ Report
    \/ WriteResults
    \/ RunAgain

Spec == Init /\ [][Next]_vars

(***************************************************************************)
(* compute_total_sales and build_price_map as whole calls: the loop folded *)
(* over the array, stopping at the first exception.                        *)
(***************************************************************************)
RECURSIVE SalesLoop(_, _, _, _)
SalesLoop(p, items, tot, errs) ==
    IF items = <<>> THEN [total |-> tot, errors |-> errs, exc |-> "none"]
    ELSE LET r == SaleStep(p, tot, errs, Head(items))
         IN IF r.exc # "none" THEN [total |-> r.total, errors |-> r.errors, exc |-> r.exc]
            ELSE SalesLoop(p, Tail(items), r.total, r.errors)

ComputeTotalSales(p, s) ==
    IF s.t # "list" THEN [total |-> PyFloat(0, 0), errors |-> 1, exc |-> "none"]
    ELSE SalesLoop(p, s.items, PyFloat(0, 0), 0)

(***************************************************************************)
(* Vocabulary of the properties.                                           *)
(***************************************************************************)
\* the function main is in (the last one it called)
Inside(f) == steps # <<>> /\ steps[Len(steps)] = f

\* an exception escaped from f
RaisedIn(f) == pc = "raised" /\ Inside(f)

Occurrences(seq, x) == Cardinality({i \in 1..Len(seq) : seq[i] = x})

\* a file that could not be read or parsed
Failed(file) == file.kind # "ok"

\* a catalog entry that is valid: an object, a non-blank string title, a
\* price float() converts
ValidEntry(item) ==
    /\ item.t = "dict"
    /\ ValidName(Get(item, "title"))
    /\ ToFloat(Get(item, "price")).ok

\* float(price) raises one of the two exceptions build_price_map handles
UnconvertiblePrice(item) ==
    /\ item.t = "dict"
    /\ ValidName(Get(item, "title"))
    /\ ~ToFloat(Get(item, "price")).ok
    /\ ToFloat(Get(item, "price")).exc \in {"TypeError", "ValueError"}

\* the positions of the valid entries titled t
ValidAt(items, t) == {i \in 1..Len(items) : ValidEntry(items[i]) /\ Get(items[i], "title").s = t}

Max(S) == CHOOSE x \in S : \A y \in S : y <= x

\* the map the catalog should give: each valid title to its last valid price
ExpectedPrices(items) ==
    [t \in {Get(items[i], "title").s : i \in {j \in 1..Len(items) : ValidEntry(items[j])}} |->
        ToFloat(Get(items[Max(ValidAt(items, t))], "price")).v]

\* the first four checks of a sale record: an object, a non-blank string
\* Product, a Quantity int() converts, and that int not negative
WellFormedSale(rec) ==
    /\ rec.t = "dict"
    /\ ValidName(Get(rec, "Product"))
    /\ ToInt(Get(rec, "Quantity")).ok
    /\ ToInt(Get(rec, "Quantity")).v.m >= 0

\* a sale record that passes all five checks
AcceptedSale(p, rec) == WellFormedSale(rec) /\ Get(rec, "Product").s \in DOMAIN p

\* the sum of price * int(Quantity) over the accepted records, in input order
RECURSIVE SumAccepted(_, _, _)
SumAccepted(p, items, acc) ==
    IF items = <<>> THEN acc
    ELSE IF AcceptedSale(p, Head(items))
         THEN SumAccepted(p, Tail(items),
                  FAdd(acc, MulFloatInt(p[Get(Head(items), "Product").s],
                                        ToInt(Get(Head(items), "Quantity")).v).v))
         ELSE SumAccepted(p, Tail(items), acc)

NumAccepted(p, items) == Cardinality({i \in 1..Len(items) : AcceptedSale(p, items[i])})

\* the rearrangements of a sequence
Rearrangements(items) ==
    {[i \in 1..Len(items) |-> items[f[i]]] : f \in Permutations(1..Len(items))}

\* this step is an iteration of the loop over the sales
SaleIteration == pc = "compute_loop" /\ idx <= Len(sales.items) /\ (idx' # idx \/ pc' # pc)

\* this step is an iteration of the loop over the catalog
CatalogIteration == pc = "build_loop" /\ idx <= Len(catalog.items) /\ (idx' # idx \/ pc' # pc)

\* the summary written by this run
Summary == FormatResults(total, errors, elapsed)

(***************************************************************************)
(* C1.  For every price map and sales array compute_total_sales returns,   *)
(* and the total it returns is the sum of prices[Product] * int(Quantity)  *)
(* over exactly the records that pass all five checks; no record stops the *)
(* loop.                                                                   *)
(***************************************************************************)
C1_TotalIsSumOverAccepted ==
    /\ ~RaisedIn("compute_total_sales")
    /\ (pc = "report" /\ sales.t = "list") => total = SumAccepted(prices, sales.items, PyFloat(0, 0))

(***************************************************************************)
(* C2.  Every iteration over a rejected record (one that fails any of the  *)
(* five checks) leaves total unchanged and adds exactly 1 to errors; an    *)
(* iteration over an accepted record leaves errors unchanged.              *)
(***************************************************************************)
C2_RejectedCountsOne ==
    [][SaleIteration =>
          IF AcceptedSale(prices, sales.items[idx])
          THEN errors' = errors
          ELSE total' = total /\ errors' = errors + 1]_vars

(***************************************************************************)
(* C3.  For every catalog array build_price_map returns, and the map has   *)
(* exactly the titles of the valid entries, each with the price of the     *)
(* last valid entry of that title.                                         *)
(***************************************************************************)
C3_MapIsLastValidPrice ==
    /\ ~RaisedIn("build_price_map")
    /\ (pc = "compute" /\ catalog.t = "list") => prices = ExpectedPrices(catalog.items)

(***************************************************************************)
(* C4.  When both documents load and parse but one is no array, main       *)
(* returns 0 and the summary is written; a catalog that is no array gives  *)
(* the empty map, sales that are no array give total 0.0 and 1 error.      *)
(***************************************************************************)
C4_NonArrayDoesNotAbort ==
    (/\ env.argc = 3
     /\ ~Failed(env.catalogFile) /\ ~Failed(env.salesFile)
     /\ (env.catalogFile.doc.t # "list" \/ env.salesFile.doc.t # "list"))
    => /\ (pc \in {"compute", "compute_loop", "report", "write", "done"} /\ env.catalogFile.doc.t # "list")
              => prices = EmptyPrices
       /\ (pc \in {"report", "write", "done"} /\ env.salesFile.doc.t # "list")
              => total = PyFloat(0, 0) /\ errors = 1
       /\ pc = "done" => exitcode = 0 /\ outfile = WriteText(outfile, Summary)

(***************************************************************************)
(* C5.  main returns 1 exactly when the argument count is wrong or an      *)
(* input file is unreadable or unparseable, and 0 otherwise; the output    *)
(* file is written, once, if and only if main returns 0.                   *)
(***************************************************************************)
C5_ExitStatusAndOutput ==
    pc = "done" =>
       /\ exitcode \in {0, 1}
       /\ exitcode = 1 <=> (env.argc # 3 \/ Failed(env.catalogFile) \/ Failed(env.salesFile))
       /\ exitcode = 0 <=> Occurrences(steps, "write_results") = 1
       /\ exitcode = 1 => Occurrences(steps, "write_results") = 0
       /\ (exitcode = 1 /\ run = 1) => outfile = env.before

(***************************************************************************)
(* C6 as stated.  Once loading the catalog has failed, main calls nothing  *)
(* more: it does not load the sales file.                                  *)
(***************************************************************************)
C6_NoStepAfterCatalogFailure ==
    (Failed(env.catalogFile) /\ "load_json(catalog)" \in {steps[i] : i \in 1..Len(steps)})
    => steps = <<"load_json(catalog)">>

(***************************************************************************)
(* C6 amended.  Each file is loaded at most once in a run.  After a failed *)
(* load of either file main still loads the other one, and then builds no  *)
(* map, aggregates and reports nothing, writes no output and returns 1.    *)
(***************************************************************************)
C6_LoadFailureAborts ==
    /\ Occurrences(steps, "load_json(catalog)") <= 1
    /\ Occurrences(steps, "load_json(sales)") <= 1
    /\ (env.argc = 3 /\ (Failed(env.catalogFile) \/ Failed(env.salesFile)))
       => /\ pc \in {"start", "load_catalog", "load_sales", "check_loaded", "done"}
          /\ \A i \in 1..Len(steps) : steps[i] \in {"load_json(catalog)", "load_json(sales)"}
          /\ pc = "done" => /\ exitcode = 1
                            /\ steps = <<"load_json(catalog)", "load_json(sales)">>

C6_Witness ==
    /\ pc = "done" /\ exitcode = 1
    /\ env.catalogFile.kind = "missing" /\ ~Failed(env.salesFile)
    /\ steps = <<"load_json(catalog)", "load_json(sales)">>

C8_NoExceptionEscapes ==
    /\ exc \in {"none", "OSError"}
    /\ pc = "raised" => (exc = "OSError" /\ Inside("write_results"))

(***************************************************************************)
(* C9.  A run that follows another on the same inputs ends as the first    *)
(* did, with the same exit status, total and error count, whatever the     *)
(* output file held before; and when it returns 0 the output file holds    *)
(* exactly the one summary of this run.                                    *)
(***************************************************************************)
C9_RunsAgree ==
    (run > 1 /\ pc \in {"done", "raised"})
    => /\ prev.ended
       /\ Outcome = prev
       /\ (pc = "done" /\ exitcode = 0) => (outfile.exists /\ outfile.lines = Summary)

C9_Witness ==
    /\ run = 2 /\ pc = "done" /\ exitcode = 0 /\ prev.exitcode = 0
    /\ env.before = StaleFile
    /\ errors > 0 /\ total # PyFloat(0, 0)
    /\ outfile.lines = Summary

(***************************************************************************)
(* C10 as stated.  For a fixed price map the total and the error count     *)
(* compute_total_sales returns are the same for every rearrangement of the *)
(* sales array.                                                            *)
(***************************************************************************)
C10_OrderIndependent ==
    (pc = "report" /\ sales.t = "list")
    => \A perm \in Rearrangements(sales.items) :
          LET r == ComputeTotalSales(prices, PyList(perm))
          IN r.exc = "none" /\ r.total = total /\ r.errors = errors

(***************************************************************************)
(* C10 amended.  For a fixed price map, whether compute_total_sales        *)
(* returns, and the error count it returns, are the same for every         *)
(* rearrangement of the sales array; so is the total when at most two      *)
(* records are accepted.  (With three or more the total is the floating    *)
(* point sum in input order, which rounding and overflow make depend on    *)
(* the order.)                                                             *)
(***************************************************************************)
C10_ErrorsOrderIndependent ==
    ((pc = "report" \/ RaisedIn("compute_total_sales")) /\ sales.t = "list")
    => \A perm \in Rearrangements(sales.items) :
          LET r == ComputeTotalSales(prices, PyList(perm))
          IN /\ (r.exc = "none") <=> (pc = "report")
             /\ pc = "report" =>
                   /\ r.errors = errors
                   /\ NumAccepted(prices, sales.items) <= 2 => r.total = total

C10_Witness ==
    /\ pc = "report" /\ sales.t = "list" /\ Len(sales.items) = 3
    /\ errors = 1 /\ NumAccepted(prices, sales.items) = 2
    /\ total # PyFloat(0, 0)
    /\ sales.items[1] # sales.items[3]

============================================================================
